---- MODULE Spec2Model ----
(***************************************************************************)
(* mcp-guard: a local gating proxy in front of named upstream MCP servers. *)
(*                                                                         *)
(*   rules.ts   shouldBlock / extractStrings  (the block rule engine)      *)
(*   server.ts  gates, sessions, getGate, createGatedServer, handleRequest *)
(*              startServer: the request listener and the signal handlers  *)
(*   index.ts   the toggle command: getRunningPid, turnOn, turnOff         *)
(*                                                                         *)
(* Specifications: Spec (the server while no signal arrives), SpecSignals  *)
(* (the server with SIGTERM and SIGINT), SpecToggle and FairToggle (the    *)
(* toggle command and its background processes), SpecRules (shouldBlock    *)
(* alone).                                                                 *)
(*                                                                         *)
(* Strings are sequences of one-character strings, JSON values are tagged  *)
(* records, and every `await` of server.ts is a point where another        *)
(* request handler may run.  The MCP SDK (Client, McpServer, the           *)
(* transports) is the environment: its calls settle nondeterministically.  *)
(***************************************************************************)
EXTENDS Naturals, Integers, Sequences, FiniteSets, TLC

(***************************************************************************)
(* Bounds of the model.                                                    *)
(***************************************************************************)
\* nesting depth of the values below the top-level argument object
MaxDepth == 2
\* length of a gate's block list in the rule-engine specification
MaxPatterns == 2
\* requests the HTTP server receives in one run
MaxRequests == 3
\* invocations of the toggle command
MaxToggles == 4
\* request handlers that may be in flight at the same time
NumHandlers == 2

(***************************************************************************)
(* Strings.                                                                *)
(***************************************************************************)
\* String.prototype.toLowerCase on one character of the model's alphabet
LowerChar(c) == IF c = "D" THEN "d" ELSE IF c = "X" THEN "x" ELSE c

\* String.prototype.toLowerCase
toLowerCase(s) == [i \in 1..Len(s) |-> LowerChar(s[i])]

\* String.prototype.includes: p occurs in s as a contiguous substring
includes(s, p) ==
    \E i \in 0..(Len(s) - Len(p)) : SubSeq(s, i + 1, i + Len(p)) = p

(***************************************************************************)
(* JSON values: null | number | string | array | object.  An array is a    *)
(* sequence of entries whose key is its index; an object is a sequence of  *)
(* entries in insertion order.                                             *)
(***************************************************************************)
Null == [t |-> "null", s |-> <<>>, kids |-> <<>>]
Num == [t |-> "number", s |-> <<>>, kids |-> <<>>]
Str(s) == [t |-> "string", s |-> s, kids |-> <<>>]
Entry(k, v) == [k |-> k, v |-> v]
Arr(vs) == [t |-> "array", s |-> <<>>,
            kids |-> [i \in 1..Len(vs) |-> Entry(<<"i">>, vs[i])]]
Obj(es) == [t |-> "object", s |-> <<>>, kids |-> es]

(***************************************************************************)
(* rules.ts                                                                *)
(***************************************************************************)
RECURSIVE walk(_), walkEach(_, _), walkEntries(_, _)

\* walkEach as Object.entries would have it: the keys are collected too
walkEntries(kids, i) ==
    IF i > Len(kids) THEN <<>>
    ELSE <<kids[i].k>> \o walk(kids[i].v) \o walkEntries(kids, i + 1)

\* val.forEach(walk) / Object.values(val).forEach(walk): the entries' values
\* in order, the keys are not visited
walkEach(kids, i) ==
    IF i > Len(kids) THEN <<>>
    ELSE walk(kids[i].v) \o walkEach(kids, i + 1)

\* the inner function of extractStrings; the result is what it pushes
walk(val) ==
    IF val.t = "string" THEN <<val.s>>
    ELSE IF val.t = "array" THEN walkEach(val.kids, 1)
    ELSE IF val.t = "object" THEN walkEach(val.kids, 1)
    ELSE <<>>

extractStrings(obj) == walk(obj)

NotBlocked == [blocked |-> FALSE, pattern |-> <<"undefined">>]
Blocked(p) == [blocked |-> TRUE, pattern |-> p]

RECURSIVE scanValues(_, _, _), scanPatterns(_, _, _), scanValuesExact(_, _, _)
RECURSIVE firstPatternIn(_, _, _), scanPatternsByValue(_, _, _)

\* scanValues without value.toLowerCase()
scanValuesExact(values, pattern, j) ==
    IF j > Len(values) THEN FALSE
    ELSE IF includes(values[j], toLowerCase(pattern)) THEN TRUE
    ELSE scanValuesExact(values, pattern, j + 1)

\* the inner loop: does some value from index j on contain the pattern
scanValues(values, pattern, j) ==
    IF j > Len(values) THEN FALSE
    ELSE IF includes(toLowerCase(values[j]), toLowerCase(pattern)) THEN TRUE
    ELSE scanValues(values, pattern, j + 1)

\* the first pattern from index i on that one value contains
firstPatternIn(value, patterns, i) ==
    IF i > Len(patterns) THEN NotBlocked
    ELSE IF includes(toLowerCase(value), toLowerCase(patterns[i]))
    THEN Blocked(patterns[i])
    ELSE firstPatternIn(value, patterns, i + 1)

\* the loops the other way round: the first value from index i on that
\* contains a pattern decides
scanPatternsByValue(values, patterns, i) ==
    IF i > Len(values) THEN NotBlocked
    ELSE IF firstPatternIn(values[i], patterns, 1).blocked
    THEN firstPatternIn(values[i], patterns, 1)
    ELSE scanPatternsByValue(values, patterns, i + 1)

\* the outer loop: the first pattern from index i on that some value contains
scanPatterns(values, patterns, i) ==
    IF i > Len(patterns) THEN NotBlocked
    ELSE IF scanValues(values, patterns[i], 1) THEN Blocked(patterns[i])
    ELSE scanPatterns(values, patterns, i + 1)

shouldBlock(args, patterns) == scanPatterns(extractStrings(args), patterns, 1)

(***************************************************************************)
(* types.ts: the configuration.  An optional field that is absent is       *)
(* Undefined; an optional list is Absent or Present(list).                 *)
(***************************************************************************)
Undefined == <<"undefined">>
Absent == <<>>
Present(x) == <<x>>

ServerConfig(url, enabled, block, blockMessage) ==
    [url |-> url, enabled |-> enabled, block |-> block,
     blockMessage |-> blockMessage]

\* the server configurations a gate is given: blocking with the default
\* message, blocking with its own message, patterns but enabled:false, no
\* block list, an empty block list
Blocking == ServerConfig("http://up/1", "undefined",
                         Present(<< <<"x", "x">>, <<"d">> >>), Undefined)
BlockingNo == ServerConfig("http://up/2", "true", Present(<< <<"d">> >>), <<"no">>)
Disabled == ServerConfig("http://up/3", "false", Present(<< <<"d">> >>), Undefined)
NoBlock == ServerConfig("http://up/4", "undefined", Absent, Undefined)
EmptyBlock == ServerConfig("http://up/5", "true", Present(<<>>), Undefined)

GateNames == {"db", "fs"}

\* GuardConfig.servers of the configurations the proxy is started with
GuardConfigs ==
    { [db |-> Blocking, fs |-> Disabled],
      [db |-> NoBlock, fs |-> BlockingNo],
      [db |-> EmptyBlock, fs |-> Blocking] }

\* names config.servers, an object JSON.parse built, answers without having
\* them as keys: the properties of Object.prototype
InheritedNames == {"constructor"}

\* the path of a request, without its slashes: the root, a configured gate
\* or a name the configuration does not have
Paths == GateNames \cup InheritedNames \cup {"", "nope"}

Methods == {"POST", "GET", "DELETE"}

(***************************************************************************)
(* server.ts: state                                                        *)
(***************************************************************************)
VARIABLES
    config,       \* GuardConfig.servers, read-only after the load
    gates,        \* Map<string, GateState>: gate name -> gate, NoGate if absent
    sessions,     \* Map<string, Session>: session id -> session
    req,          \* the request handlers in flight: handler -> its frame
    last,         \* the frame of the request that was answered last
    nextClient,   \* identity of the next upstream Client that is constructed
    nextSid,      \* the next value of randomUUID()
    received,     \* number of requests received so far
    failed,       \* history: the gate names a connectUpstream call failed for
    gateOrder,    \* the keys of gates in the order they were inserted
    proc,         \* the server process: its signal handler and what it closed
    pidFile,      \* toggle: the content of ~/.mcp-guard.pid
    procs,        \* toggle: the background processes spawned so far
    ctl,          \* toggle: the toggle command that is running
    toggles,      \* toggle: number of toggle commands started so far
    signalled,    \* toggle: history, the pids SIGTERM was sent to
    args,         \* rule engine alone: the arguments under evaluation
    patterns,     \* rule engine alone: the block list
    result        \* rule engine alone: what shouldBlock returned

vars == <<config, gates, sessions, req, last, nextClient, nextSid, received, failed,
          gateOrder, proc, pidFile, procs, ctl, toggles, signalled,
          args, patterns, result>>

serverVars == <<config, gates, sessions, req, last, nextClient, nextSid, received,
                failed, gateOrder, proc>>
ruleVars == <<args, patterns, result>>
toggleVars == <<pidFile, procs, ctl, toggles, signalled>>
\* what handleRequest does not touch
otherVars == <<ruleVars, proc, toggleVars>>

Handlers == 1..NumHandlers

\* GateState: the upstream Client (by identity) and the tools it listed
GateState(client, tools) == [upstream |-> client, tools |-> tools]
NoGate == GateState(0, {})

\* the tool lists an upstream may answer listTools with
ToolSets == {{"query"}, {"query", "exec"}}
ToolNames == {"query", "exec"}

NoSid == 0
\* a session id no randomUUID() call returns
BogusSid == 99

\* argument objects of the tool calls the clients make
CallArgs ==
    { Obj(<<Entry(<<"q">>, Str(<<"x">>))>>),
      Obj(<<Entry(<<"d">>, Arr(<<Num, Obj(<<Entry(<<"q">>, Str(<<"x", "D">>))>>)>>))>>) }

\* request bodies: unparsable text, no body, an initialize message, a
\* tools/call message, any other message
Bodies ==
    {[kind |-> k, tool |-> "", arguments |-> Null] : k \in {"bad", "initialize", "other"}}
    \cup {[kind |-> "call", tool |-> t, arguments |-> a] : t \in ToolNames, a \in CallArgs}
NoBody == [kind |-> "empty", tool |-> "", arguments |-> Null]

\* what upstream.callTool resolves with
CallResults ==
    { [content |-> <<"rows">>, isError |-> "false"],
      [content |-> <<"denied">>, isError |-> "true"],
      [content |-> Undefined, isError |-> "undefined"] }
\* what upstream.callTool or client.connect rejects with
ErrorMessages == { <<"ECONNRESET">> }
\* what transport.handleRequest rejects with
TransportErrors == { <<"ERR_HTTP_HEADERS_SENT">> }

NoResult == [kind |-> "none", content |-> <<>>, isError |-> FALSE]
\* res: the status written by writeHead (0: none yet), the body, and whether
\* res.end has been called
NoResponse == [status |-> 0, error |-> <<>>, available |-> {}, ended |-> FALSE]
Response(status, error, available) ==
    [status |-> status, error |-> error, available |-> available, ended |-> TRUE]
\* the response of which only the head has been written
HeadOnly(status) == [NoResponse EXCEPT !.status = status]

\* McpServer built by createGatedServer: its tool callbacks close over the
\* gate and the gate's configuration
McpServer(gate, gateConfig) == [gate |-> gate, gateConfig |-> gateConfig]
NoServer == McpServer(NoGate, ServerConfig("", "undefined", Absent, Undefined))

\* Session: { gateName, server, transport }
Session(gateName, server) == [gateName |-> gateName, server |-> server]
NoSession == Session("", NoServer)

\* the frame of a handler that has no request
Idle ==
    [pc |-> "idle", method |-> "GET", gateName |-> "", sessionId |-> NoSid,
     body |-> NoBody, client |-> 0, gate |-> NoGate, server |-> NoServer,
     session |-> NoSession, res |-> NoResponse, result |-> NoResult,
     calls |-> <<>>, thrown |-> <<>>, caught |-> <<>>]

\* the pid file: absent, or text that is no number, or a pid
NoFile == 0
Garbage == -1
\* the pids of the processes the toggle command spawns
Pids == 1..MaxToggles
\* the toggle command is not running
CtlIdle == [pc |-> "idle", pid |-> 0, status |-> "", found |-> ""]
\* nobody has used the toggle command
NoToggle ==
    /\ pidFile = NoFile
    /\ procs = [p \in Pids |-> "none"]
    /\ ctl = CtlIdle
    /\ toggles = 0
    /\ signalled = {}

\* the process before a signal: no handler runs, nothing has been closed,
\* the http server listens
Serving ==
    [pc |-> "serving", signal |-> "", gateIndex |-> 0, closing |-> 0,
     sessionCursor |-> NoSid, closedClients |-> {}, closedServers |-> {},
     listening |-> TRUE]

Init ==
    /\ config \in GuardConfigs
    /\ gates = [g \in GateNames |-> NoGate]
    /\ sessions = <<>>
    /\ req = [h \in Handlers |-> Idle]
    /\ last = Idle
    /\ nextClient = 1
    /\ nextSid = 1
    /\ received = 0
    /\ failed = {}
    /\ gateOrder = <<>>
    /\ proc = Serving
    /\ NoToggle
    /\ args = Null
    /\ patterns = <<>>
    /\ result = NotBlocked

(***************************************************************************)
(* server.ts: createGatedServer, the callback registered for every tool    *)
(***************************************************************************)
\* blockingActive as `gateConfig.enabled === true` would have it
blockingActiveIfTrue(gateConfig) ==
    /\ gateConfig.enabled = "true"
    /\ gateConfig.block # Absent
    /\ Len(gateConfig.block[1]) > 0

\* blockingActive without the test of gateConfig.enabled
blockingActiveAlways(gateConfig) ==
    /\ gateConfig.block # Absent
    /\ Len(gateConfig.block[1]) > 0

\* gateConfig.enabled !== false && gateConfig.block?.length
blockingActive(gateConfig) ==
    /\ gateConfig.enabled # "false"
    /\ gateConfig.block # Absent
    /\ Len(gateConfig.block[1]) > 0

\* gateConfig.blockMessage ?? `Blocked: matched pattern "${result.pattern}"`
blockMessage(gateConfig, r) ==
    IF gateConfig.blockMessage # Undefined THEN gateConfig.blockMessage
    ELSE <<"Blocked: matched pattern ">> \o r.pattern

\* the result returned for a blocked call; "blocked: " stands for the sign
\* the text starts with
blockedResult(gateConfig, r) ==
    [kind |-> "blocked", content |-> <<"blocked: ">> \o blockMessage(gateConfig, r),
     isError |-> TRUE]

\* the callback's decision before the upstream is called: the blocked result,
\* or NoResult when the call goes on to upstream.callTool
gateCheck(gateConfig, arguments) ==
    IF blockingActive(gateConfig)
    THEN LET r == shouldBlock(arguments, gateConfig.block[1])
         IN IF r.blocked THEN blockedResult(gateConfig, r) ELSE NoResult
    ELSE NoResult

\* content: result.content ?? [], isError: result.isError ?? false
relayResult(r) ==
    [kind |-> "relayed",
     content |-> IF r.content = Undefined THEN <<>> ELSE r.content,
     isError |-> r.isError = "true"]

\* callTool without the arguments
callToolNoArguments(gate, name, arguments) ==
    [upstream |-> gate.upstream, name |-> name, arguments |-> Obj(<<>>)]

\* gate.upstream.callTool({ name: tool.name, arguments: args })
callTool(gate, name, arguments) ==
    [upstream |-> gate.upstream, name |-> name, arguments |-> arguments]

\* upstreamErrorResult without isError
upstreamErrorResultNoFlag(message) ==
    [kind |-> "upstreamError", content |-> <<"Upstream error: ">> \o message,
     isError |-> FALSE]

\* the catch branch around upstream.callTool
upstreamErrorResult(message) ==
    [kind |-> "upstreamError", content |-> <<"Upstream error: ">> \o message,
     isError |-> TRUE]

(***************************************************************************)
(* server.ts: handleRequest.  Each action runs a handler from one await to *)
(* the next.                                                               *)
(***************************************************************************)
\* handler h goes on with the frame; when the frame has returned the
\* handler is free again and the frame is kept as the last answered request
Set(h, frame) ==
    IF frame.pc = "done"
    THEN req' = [req EXCEPT ![h] = Idle] /\ last' = frame
    ELSE req' = [req EXCEPT ![h] = frame] /\ UNCHANGED last

\* handler h takes a request and runs it to the frame; the last answered
\* request is from now on the one answered since this arrival
Start(h, frame) ==
    IF frame.pc = "done"
    THEN UNCHANGED req /\ last' = frame
    ELSE req' = [req EXCEPT ![h] = frame] /\ last' = Idle

\* the response is written and the handler returns: its locals are gone
Respond(frame, status, error, available) ==
    [frame EXCEPT !.pc = "done", !.res = Response(status, error, available),
                  !.client = 0, !.gate = NoGate, !.server = NoServer]

\* without the catch around getGate the rejection reaches the listener
upstreamFailedUncaught(frame, msg) == Respond(frame, 500, msg, {})

\* the catch around getGate in handleRequest
upstreamFailed(frame, msg) ==
    Respond(frame, 502, <<"Failed to connect to upstream: ">> \o msg, {})

\* getGate up to its await: the cached gate, or connectUpstream up to
\* client.connect.  For an inherited name config.servers[name] has no url
\* and new URL(undefined) throws before a Client exists.
getGate(h, frame) ==
    IF frame.gateName \in InheritedNames
    THEN /\ Start(h, upstreamFailed(frame, <<"Invalid URL">>))
         /\ UNCHANGED nextClient
    ELSE IF gates[frame.gateName] # NoGate
    THEN /\ Start(h, [frame EXCEPT !.pc = "haveGate", !.gate = gates[frame.gateName]])
         /\ UNCHANGED nextClient
    ELSE /\ Start(h, [frame EXCEPT !.pc = "connect", !.client = nextClient])
         /\ nextClient' = nextClient + 1

\* config.servers[gateName] is falsy
unknownGate(frame) == Respond(frame, 404, <<"Unknown gate">>, GateNames)

\* an unknown session id taken for no session id
sessionNotFoundAsBadRequest(frame) ==
    Respond(frame, 400, <<"New sessions must start with POST">>, {})

\* the session id is not a key of sessions
sessionNotFound(frame) == Respond(frame, 404, <<"Session not found">>, {})

\* a request without session id answered as if the method did not matter
mustStartWithPostAccepted(frame) == Respond(frame, 200, <<"ok">>, {})

\* no session id and the method is not POST
mustStartWithPost(frame) ==
    Respond(frame, 400, <<"New sessions must start with POST">>, {})

\* a request arrives and the free handler of least index takes it;
\* handleRequest runs up to its first await
Receive(h) ==
    /\ proc.pc # "exited"
    /\ req[h].pc = "idle"
    /\ \A k \in 1..(h - 1) : req[k].pc # "idle"
    /\ received < MaxRequests
    /\ received' = received + 1
    /\ \E method \in Methods, gateName \in Paths,
          sessionId \in {NoSid, BogusSid} \cup (1..(nextSid - 1)) :
        LET frame == [Idle EXCEPT !.method = method, !.gateName = gateName,
                                  !.sessionId = sessionId]
        IN
        /\ IF gateName = ""
           THEN /\ Start(h, Respond(frame, 200, <<"ok">>, GateNames))
                /\ UNCHANGED nextClient
           ELSE IF gateName \notin GateNames \cup InheritedNames
           THEN /\ Start(h, unknownGate(frame))
                /\ UNCHANGED nextClient
           ELSE IF sessionId # NoSid /\ sessionId \in DOMAIN sessions
           THEN /\ Start(h, [frame EXCEPT
                        !.session = sessions[sessionId],
                        !.pc = IF method = "DELETE" THEN "terminate"
                               ELSE IF method = "POST" THEN "readBody"
                               ELSE "deliver"])
                /\ UNCHANGED nextClient
           ELSE IF sessionId # NoSid
           THEN /\ Start(h, sessionNotFound(frame))
                /\ UNCHANGED nextClient
           ELSE IF method # "POST"
           THEN /\ Start(h, mustStartWithPost(frame))
                /\ UNCHANGED nextClient
           ELSE getGate(h, frame)
    /\ UNCHANGED <<config, gates, sessions, nextSid, failed, gateOrder, otherVars>>

\* connectUpstream: client.connect(transport) settles
Connect(h) ==
    /\ proc.pc # "exited"
    /\ req[h].pc = "connect"
    /\ \/ /\ Set(h, [req[h] EXCEPT !.pc = "listTools"])
          /\ UNCHANGED failed
       \/ /\ \E msg \in ErrorMessages : Set(h, upstreamFailed(req[h], msg))
          /\ failed' = failed \cup {req[h].gateName}
    /\ UNCHANGED <<config, gates, sessions, nextClient, nextSid, received,
                   gateOrder, otherVars>>

\* the key order of a Map after set(key, ...): a new key goes to the end, a
\* key the Map has keeps its place
mapSetOrder(order, key) ==
    IF \E i \in 1..Len(order) : order[i] = key THEN order ELSE Append(order, key)

\* getGate that returns the gate without storing it
gatesSetForgotten(registry, name, gate) == registry

\* gates.set(name, gate)
gatesSet(registry, name, gate) == [registry EXCEPT ![name] = gate]

\* connectUpstream: client.listTools() settles; on success getGate stores the
\* gate and returns it
ListTools(h) ==
    /\ proc.pc # "exited"
    /\ req[h].pc = "listTools"
    /\ \/ \E tools \in ToolSets :
            LET gate == GateState(req[h].client, tools) IN
            /\ gates' = gatesSet(gates, req[h].gateName, gate)
            /\ gateOrder' = mapSetOrder(gateOrder, req[h].gateName)
            /\ Set(h, [req[h] EXCEPT !.pc = "haveGate", !.gate = gate])
            /\ UNCHANGED failed
       \/ /\ \E msg \in ErrorMessages : Set(h, upstreamFailed(req[h], msg))
          /\ failed' = failed \cup {req[h].gateName}
          /\ UNCHANGED <<gates, gateOrder>>
    /\ UNCHANGED <<config, sessions, nextClient, nextSid, received, otherVars>>

\* getGate has returned: createGatedServer, the transport, server.connect
NewServer(h) ==
    /\ proc.pc # "exited"
    /\ req[h].pc = "haveGate"
    /\ Set(h, [req[h] EXCEPT
            !.pc = "readBodyNew",
            !.server = McpServer(req[h].gate, config[req[h].gateName])])
    /\ UNCHANGED <<config, gates, sessions, nextClient, nextSid, received, failed, gateOrder, otherVars>>

\* the catch of startServer's request listener: the 500 response is written
\* unless the head of a response is already out; then nothing is written
listenerCatch(frame, msg, headersSent) ==
    IF headersSent
    THEN [frame EXCEPT !.pc = "done", !.res = HeadOnly(200), !.caught = msg,
                       !.client = 0, !.gate = NoGate, !.server = NoServer]
    ELSE [Respond(frame, 500, msg, {}) EXCEPT !.caught = msg]

\* readBody rejects with what JSON.parse threw
internalError(frame) == listenerCatch(frame, <<"Unexpected token">>, FALSE)

\* transport.handleRequest rejects, before or after it wrote the head of
\* the response
transportFails(h) ==
    \E msg \in TransportErrors, headersSent \in BOOLEAN :
        Set(h, listenerCatch(req[h], msg, headersSent))

\* readBody settles, for a new session and for an existing one: the body
\* the client sent is parsed, or JSON.parse throws
ReadBody(h) ==
    /\ proc.pc # "exited"
    /\ req[h].pc \in {"readBodyNew", "readBody"}
    /\ \E body \in Bodies :
        IF body.kind = "bad"
        THEN Set(h, internalError([req[h] EXCEPT !.body = body]))
        ELSE Set(h, [req[h] EXCEPT
                !.body = body,
                !.pc = IF req[h].pc = "readBodyNew" THEN "handleNew" ELSE "deliver"])
    /\ UNCHANGED <<config, gates, sessions, nextClient, nextSid, received, failed, gateOrder, otherVars>>

\* a transport that calls onsessioninitialized for any message
handshakeCompletesAlways(body) == TRUE

\* the transport calls onsessioninitialized while it handles an initialize
\* message, and for no other message
handshakeCompletes(body) == body.kind = "initialize"

\* transport.handleRequest on the new transport: an initialize message ends
\* the handshake and onsessioninitialized registers the session
HandleNew(h) ==
    /\ proc.pc # "exited"
    /\ req[h].pc = "handleNew"
    /\ \/ IF handshakeCompletes(req[h].body)
          THEN /\ sessions' = sessions @@
                       (nextSid :> Session(req[h].gateName, req[h].server))
               /\ nextSid' = nextSid + 1
               /\ Set(h, Respond(req[h], 200, <<"initialized">>, {}))
          ELSE /\ Set(h, Respond(req[h], 400, <<"Bad Request">>, {}))
               /\ UNCHANGED <<sessions, nextSid>>
       \/ /\ transportFails(h)
          /\ UNCHANGED <<sessions, nextSid>>
    /\ UNCHANGED <<config, gates, nextClient, received, failed, gateOrder, otherVars>>

\* DELETE on an existing session: the transport's termination flow
Terminate(h) ==
    /\ proc.pc # "exited"
    /\ req[h].pc = "terminate"
    /\ \/ Set(h, [req[h] EXCEPT !.pc = "dropSession",
                                !.res = Response(200, <<"terminated">>, {})])
       \/ transportFails(h)
    /\ UNCHANGED <<config, gates, sessions, nextClient, nextSid, received, failed, gateOrder, otherVars>>

\* the session table when the DELETE handler forgets sessions.delete
sessionsDeleteNothing(table, sessionId) == table

\* sessions.delete(sessionId)
sessionsDelete(table, sessionId) ==
    [s \in DOMAIN table \ {sessionId} |-> table[s]]

\* sessions.delete(sessionId) after the termination flow
DropSession(h) ==
    /\ proc.pc # "exited"
    /\ req[h].pc = "dropSession"
    /\ sessions' = sessionsDelete(sessions, req[h].sessionId)
    /\ Set(h, [req[h] EXCEPT !.pc = "done"])
    /\ UNCHANGED <<config, gates, nextClient, nextSid, received, failed,
                   gateOrder, otherVars>>

\* session.transport.handleRequest on an existing session: a tools/call for
\* a registered tool runs the tool's callback up to upstream.callTool
Deliver(h) ==
    /\ proc.pc # "exited"
    /\ req[h].pc = "deliver"
    /\ \/ LET frame == req[h]
              server == frame.session.server
              check == gateCheck(server.gateConfig, frame.body.arguments)
          IN
          IF frame.body.kind = "call" /\ frame.body.tool \in server.gate.tools
          THEN IF check # NoResult
               THEN Set(h, [Respond(frame, 200, <<"result">>, {}) EXCEPT !.result = check])
               ELSE Set(h, [frame EXCEPT
                       !.pc = "callTool",
                       !.calls = Append(@, callTool(server.gate, frame.body.tool,
                                                    frame.body.arguments))])
          ELSE IF frame.body.kind = "call"
          THEN Set(h, Respond(frame, 200, <<"Unknown tool">>, {}))
          ELSE IF frame.method = "GET" \/ frame.body.kind = "other"
          THEN Set(h, Respond(frame, 200, <<"ok">>, {}))
          ELSE Set(h, Respond(frame, 400, <<"Bad Request">>, {}))
       \/ transportFails(h)
    /\ UNCHANGED <<config, gates, sessions, nextClient, nextSid, received, failed, gateOrder, otherVars>>

\* upstream.callTool settles: the result is relayed, a rejection is caught
CallTool(h) ==
    /\ proc.pc # "exited"
    /\ req[h].pc = "callTool"
    /\ \/ \E r \in CallResults :
            Set(h, [Respond(req[h], 200, <<"result">>, {}) EXCEPT
                        !.result = relayResult(r)])
       \/ \E msg \in ErrorMessages :
            Set(h, [Respond(req[h], 200, <<"result">>, {}) EXCEPT
                        !.result = upstreamErrorResult(msg), !.thrown = msg])
    /\ UNCHANGED <<config, gates, sessions, nextClient, nextSid, received, failed, gateOrder, otherVars>>

Next ==
    \E h \in Handlers :
        \/ Receive(h)
        \/ Connect(h)
        \/ ListTools(h)
        \/ NewServer(h)
        \/ ReadBody(h)
        \/ HandleNew(h)
        \/ Terminate(h)
        \/ DropSession(h)
        \/ Deliver(h)
        \/ CallTool(h)

Spec == Init /\ [][Next]_vars

(***************************************************************************)
(* server.ts: startServer, the signal handlers.  The SIGTERM handler is    *)
(* run from one await to the next, and requests are handled while it       *)
(* waits.                                                                  *)
(***************************************************************************)
\* httpServer.close(); process.exit(0)
exit(p) == [p EXCEPT !.pc = "exited", !.listening = FALSE]

\* the loop over sessions, from the entry after the one visited last up to
\* the next session.server.close(); after the loop the process exits.  The
\* iterator of a Map also visits the entries set while the loop waits.
closeSessions(p) ==
    LET rest == {sid \in DOMAIN sessions : sid > p.sessionCursor}
    IN IF rest # {}
       THEN [p EXCEPT !.pc = "closeSession",
                      !.sessionCursor = CHOOSE sid \in rest : \A t \in rest : sid <= t]
       ELSE exit(p)

\* the loop over gates, from the entry after the one visited last up to the
\* next gate.upstream.close(); after the loop comes the loop over sessions
closeGates(p) ==
    IF p.gateIndex < Len(gateOrder)
    THEN [p EXCEPT !.pc = "closeGate",
                   !.gateIndex = @ + 1,
                   !.closing = gates[gateOrder[p.gateIndex + 1]].upstream]
    ELSE closeSessions(p)

\* the signal handler goes on as p says; when it has called process.exit the
\* memory of the process is gone: the maps and the handlers in flight
Handler(p) ==
    /\ proc' = p
    /\ IF p.pc = "exited"
       THEN /\ gates' = [g \in GateNames |-> NoGate]
            /\ gateOrder' = <<>>
            /\ sessions' = <<>>
            /\ req' = [h \in Handlers |-> Idle]
            /\ last' = Idle
       ELSE UNCHANGED <<gates, gateOrder, sessions, req, last>>
    /\ UNCHANGED <<config, nextClient, nextSid, received, failed, ruleVars,
                   toggleVars>>

\* SIGTERM is delivered: the handler runs up to its first await
Sigterm ==
    /\ proc.pc = "serving"
    /\ Handler(closeGates([proc EXCEPT !.signal = "SIGTERM"]))

\* gate.upstream.close() settles and the loop over gates goes on
GateClosed ==
    /\ proc.pc = "closeGate"
    /\ Handler(closeGates([proc EXCEPT !.closedClients = @ \cup {proc.closing},
                                       !.closing = 0]))

\* session.server.close() settles and the loop over sessions goes on
SessionClosed ==
    /\ proc.pc = "closeSession"
    /\ Handler(closeSessions([proc EXCEPT
                    !.closedServers = @ \cup {proc.sessionCursor}]))

\* SIGINT is delivered: httpServer.close(); process.exit(0)
Sigint ==
    /\ proc.pc # "exited"
    /\ Handler(exit([proc EXCEPT !.signal = "SIGINT"]))

\* the server started with one of the configurations
InitSignals ==
    /\ config = [db |-> Blocking, fs |-> Disabled]
    /\ gates = [g \in GateNames |-> NoGate]
    /\ gateOrder = <<>>
    /\ sessions = <<>>
    /\ req = [h \in Handlers |-> Idle]
    /\ last = Idle
    /\ nextClient = 1
    /\ nextSid = 1
    /\ received = 0
    /\ failed = {}
    /\ proc = Serving
    /\ NoToggle
    /\ args = Null
    /\ patterns = <<>>
    /\ result = NotBlocked

\* requests are handled while the process lives, signals are delivered and
\* the SIGTERM handler goes on
NextSignals ==
    \/ Next
    \/ Sigterm
    \/ GateClosed
    \/ SessionClosed
    \/ Sigint

SpecSignals == InitSignals /\ [][NextSignals]_vars

(***************************************************************************)
(* index.ts: the toggle command and the background processes it spawns.    *)
(* The commands run one after the other; the background processes are      *)
(* other processes of the machine and run beside them.                     *)
(***************************************************************************)
\* process.kill(pid, 0) as if the probe were a signal that is delivered
probeDelivers(sent, pid) == sent \cup {pid}

\* process.kill(pid, 0) tests for the process and delivers no signal
probe(sent, pid) == sent

\* isProcessRunning(pid)
isProcessRunning(pid) == pid \in Pids /\ procs[pid] \in {"starting", "listening"}

\* turnOff that leaves the pid file
unlinkForgotten(file) == file

\* unlinkSync(PID_FILE)
unlinkSync(file) == NoFile

\* turnOn that writes no pid file
writePidForgotten(file, pid) == file

\* writeFileSync(PID_FILE, String(child.pid))
writePid(file, pid) == pid

\* fetch of http://localhost:port/ gets an ok answer: a process listens on
\* the port, whichever pid it has
statusOk == \E p \in Pids : procs[p] = "listening"

\* the pid spawn gives the next child
nextPid == CHOOSE p \in Pids : procs[p] = "none" /\ \A q \in 1..(p - 1) : procs[q] # "none"

\* main without flags starts; getRunningPid runs up to its return or up to
\* its fetch
Check ==
    /\ ctl.pc = "idle"
    /\ toggles < MaxToggles
    /\ toggles' = toggles + 1
    /\ IF pidFile = NoFile
       THEN /\ ctl' = [pc |-> "act", pid |-> 0, status |-> "off", found |-> "none"]
            /\ UNCHANGED <<pidFile, signalled>>
       ELSE IF pidFile = Garbage
       THEN /\ ctl' = [pc |-> "act", pid |-> 0, status |-> "off", found |-> "garbage"]
            /\ pidFile' = unlinkSync(pidFile)
            /\ UNCHANGED signalled
       ELSE IF ~isProcessRunning(pidFile)
       THEN /\ ctl' = [pc |-> "act", pid |-> 0, status |-> "off", found |-> "dead"]
            /\ pidFile' = unlinkSync(pidFile)
            /\ signalled' = probe(signalled, pidFile)
       ELSE /\ ctl' = [pc |-> "fetch", pid |-> pidFile, status |-> "", found |-> "alive"]
            /\ signalled' = probe(signalled, pidFile)
            /\ UNCHANGED pidFile
    /\ UNCHANGED <<procs, serverVars, ruleVars>>

\* getRunningPid: the fetch settles within its second
Fetch ==
    /\ ctl.pc = "fetch"
    /\ IF statusOk
       THEN /\ ctl' = [ctl EXCEPT !.pc = "act", !.status = "on"]
            /\ UNCHANGED pidFile
       ELSE /\ ctl' = [ctl EXCEPT !.pc = "act", !.status = "off", !.pid = 0,
                                  !.found = "unresponsive"]
            /\ pidFile' = unlinkSync(pidFile)
    /\ UNCHANGED <<procs, toggles, signalled, serverVars, ruleVars>>

\* main after getRunningPid: turnOff(pid) of a process that is on, else
\* turnOn.  process.kill throws when the process is gone and the command
\* ends before unlinkSync.
Act ==
    /\ ctl.pc = "act"
    /\ ctl' = [ctl EXCEPT !.pc = "idle"]
    /\ IF ctl.status = "on"
       THEN IF isProcessRunning(ctl.pid)
            THEN /\ signalled' = signalled \cup {ctl.pid}
                 /\ pidFile' = unlinkSync(pidFile)
                 /\ UNCHANGED procs
            ELSE UNCHANGED <<signalled, pidFile, procs>>
       ELSE /\ procs' = [procs EXCEPT ![nextPid] = "starting"]
            /\ pidFile' = writePid(pidFile, nextPid)
            /\ UNCHANGED signalled
    /\ UNCHANGED <<toggles, serverVars, ruleVars>>

\* a background process reaches httpServer.listen: it gets the port, or the
\* port is in use and it exits with code 1
Listen(p) ==
    /\ procs[p] = "starting"
    /\ procs' = [procs EXCEPT ![p] = IF statusOk THEN "dead" ELSE "listening"]
    /\ UNCHANGED <<pidFile, ctl, toggles, signalled, serverVars, ruleVars>>

\* a background process that was sent SIGTERM exits
Exit(p) ==
    /\ procs[p] \in {"starting", "listening"}
    /\ p \in signalled
    /\ procs' = [procs EXCEPT ![p] = "dead"]
    /\ UNCHANGED <<pidFile, ctl, toggles, signalled, serverVars, ruleVars>>

\* a background process ends by itself: its configuration cannot be
\* loaded, or it is killed from outside
Crash(p) ==
    /\ procs[p] \in {"starting", "listening"}
    /\ p \notin signalled
    /\ procs' = [procs EXCEPT ![p] = "dead"]
    /\ UNCHANGED <<pidFile, ctl, toggles, signalled, serverVars, ruleVars>>

\* the machine before a toggle command: no background process, and no pid
\* file or one that somebody filled with text
InitToggle ==
    /\ config = [db |-> Blocking, fs |-> Disabled]
    /\ gates = [g \in GateNames |-> NoGate]
    /\ gateOrder = <<>>
    /\ sessions = <<>>
    /\ req = [h \in Handlers |-> Idle]
    /\ last = Idle
    /\ nextClient = 1
    /\ nextSid = 1
    /\ received = 0
    /\ failed = {}
    /\ proc = Serving
    /\ pidFile \in {NoFile, Garbage}
    /\ procs = [p \in Pids |-> "none"]
    /\ ctl = CtlIdle
    /\ toggles = 0
    /\ signalled = {}
    /\ args = Null
    /\ patterns = <<>>
    /\ result = NotBlocked

NextToggle ==
    \/ Check
    \/ Fetch
    \/ Act
    \/ \E p \in Pids : Listen(p) \/ Exit(p) \/ Crash(p)

SpecToggle == InitToggle /\ [][NextToggle]_vars

\* a process that was sent SIGTERM gets to its process.exit
FairToggle == SpecToggle /\ \A p \in Pids : WF_vars(Exit(p))

(***************************************************************************)
(* The rule engine alone: shouldBlock applied to every argument object and *)
(* block list of the bounded sets below.                                   *)
(***************************************************************************)
\* string leaves: without a pattern, with one in either case, at the start,
\* in the middle and at the end
LeafStrings ==
    { <<>>, <<"y">>, <<"D">>, <<"y", "d">>, <<"X", "y">>, <<"y", "x", "D", "y">> }

\* the patterns a block list is made of
PatternStrings == { <<"d">>, <<"x">>, <<"D", "y">> }

\* property names; "d" is a name a pattern occurs in
Keys == { <<"q">>, <<"d">> }

Leaves == {Str(s) : s \in LeafStrings} \cup {Num, Null}

\* what shares an array or an object with a nested value
Siblings == {Num, Str(<<"y", "x">>)}

\* the values one level deeper than those of V
Nest(V) ==
    V \cup {Arr(<<v>>) : v \in V}
      \cup {Obj(<<Entry(k, v)>>) : k \in Keys, v \in V}
      \cup {Arr(<<v, w>>) : v \in V, w \in Siblings}
      \cup {Arr(<<w, v>>) : v \in V, w \in Siblings}
      \cup {Obj(<<Entry(<<"q">>, w), Entry(<<"d">>, v)>>) : v \in V, w \in Siblings}

RECURSIVE Values(_)
Values(depth) == IF depth = 0 THEN Leaves ELSE Nest(Values(depth - 1))

\* args: Record<string, unknown>
ArgsSet ==
    {Obj(<<>>)}
    \cup {Obj(<<Entry(k, v)>>) : k \in Keys, v \in Values(MaxDepth)}
    \cup {Obj(<<Entry(<<"d">>, v), Entry(<<"q">>, w)>>) :
            v \in Values(MaxDepth), w \in Siblings}

RECURSIVE SeqsUpTo(_, _)
SeqsUpTo(S, n) ==
    IF n = 0 THEN {<<>>}
    ELSE LET shorter == SeqsUpTo(S, n - 1)
         IN shorter \cup {Append(q, x) : q \in shorter, x \in S}

PatternLists == SeqsUpTo(PatternStrings, MaxPatterns)

\* shouldBlock has not been called yet
Pending == [blocked |-> FALSE, pattern |-> <<"pending">>]

InitRules ==
    /\ config = [db |-> Blocking, fs |-> Disabled]
    /\ gates = [g \in GateNames |-> NoGate]
    /\ sessions = <<>>
    /\ req = [h \in Handlers |-> Idle]
    /\ last = Idle
    /\ nextClient = 1
    /\ nextSid = 1
    /\ received = 0
    /\ failed = {}
    /\ gateOrder = <<>>
    /\ proc = Serving
    /\ NoToggle
    /\ args \in ArgsSet
    /\ patterns \in PatternLists
    /\ result = Pending

\* const result = shouldBlock(args, patterns)
Evaluate ==
    /\ result = Pending
    /\ result' = shouldBlock(args, patterns)
    /\ UNCHANGED <<args, patterns, serverVars, toggleVars>>

NextRules == Evaluate

SpecRules == InitRules /\ [][NextRules]_vars

(***************************************************************************)
(* Properties of the rule engine (SpecRules).                              *)
(***************************************************************************)
\* two characters that are the same letter in either case
SameLetter(a, b) == a = b \/ {a, b} = {"d", "D"} \/ {a, b} = {"x", "X"}

\* s contains p, case-insensitively
ContainsIgnoringCase(s, p) ==
    \E i \in 0..(Len(s) - Len(p)) :
        \A j \in 1..Len(p) : SameLetter(s[i + j], p[j])

\* the string values reachable through arrays and objects
RECURSIVE StringLeaves(_)
StringLeaves(v) ==
    IF v.t = "string" THEN {v.s}
    ELSE UNION {StringLeaves(v.kids[i].v) : i \in 1..Len(v.kids)}

Matches(a, p) == \E s \in StringLeaves(a) : ContainsIgnoringCase(s, p)

\* C5 as stated: every configured pattern that some string leaf contains,
\* at whatever depth, is the pattern shouldBlock reports as blocked.
C5_EveryContainedPatternReported ==
    result # Pending =>
        \A i \in 1..Len(patterns) :
            Matches(args, patterns[i]) => result = Blocked(patterns[i])

\* C5: when some string leaf, at whatever depth, contains a configured
\* pattern case-insensitively, shouldBlock returns blocked=true, and the
\* pattern it reports is the first of the list that is contained.
C5_FirstContainedPatternReported ==
    result # Pending =>
        \A i \in 1..Len(patterns) :
            (/\ Matches(args, patterns[i])
             /\ \A k \in 1..(i - 1) : ~Matches(args, patterns[k]))
            => result = Blocked(patterns[i])

\* a blocked call whose only matches lie below the top level and differ from
\* the pattern in case
C5_Witness ==
    /\ result # Pending
    /\ result.blocked
    /\ Len(args.kids) > 0
    /\ \A i \in 1..Len(args.kids) :
          /\ args.kids[i].v.t \in {"array", "object"}
          /\ \A j \in 1..Len(args.kids[i].v.kids) :
                args.kids[i].v.kids[j].v.t \in {"array", "object"}
    /\ \A s \in StringLeaves(args) : ~includes(s, result.pattern)

\* C6: when no string leaf contains any configured pattern, and whenever the
\* block list is empty, shouldBlock returns blocked=false.
C6_NoMatchNotBlocked ==
    (/\ result # Pending
     /\ \/ patterns = <<>>
        \/ \A i \in 1..Len(patterns) : ~Matches(args, patterns[i]))
    => result = NotBlocked

\* a call that is let through although a property is named like a pattern
\* and there are string leaves to scan
C6_Witness ==
    /\ result = NotBlocked
    /\ patterns # <<>>
    /\ StringLeaves(args) # {}
    /\ \E i \in 1..Len(args.kids), j \in 1..Len(patterns) :
          ContainsIgnoringCase(args.kids[i].k, patterns[j])

\* the indices of the patterns some string leaf contains
Hits == {i \in 1..Len(patterns) : Matches(args, patterns[i])}

\* C20: when several patterns match, shouldBlock reports the one that comes
\* first in the block list, also when a pattern further down the list is
\* contained in an earlier leaf, and it reports that one pattern only.
C20_PatternOrderBeforeLeafOrder ==
    (result # Pending /\ Cardinality(Hits) >= 2)
    => /\ result.blocked
       /\ result.pattern = patterns[CHOOSE i \in Hits : \A k \in Hits : i <= k]

\* two different patterns match; the first leaf that contains a pattern
\* contains the second pattern of the list and not the first, and the
\* first pattern is the one reported
C20_Witness ==
    /\ result # Pending
    /\ result.blocked
    /\ Len(patterns) = 2
    /\ patterns[1] # patterns[2]
    /\ Hits = {1, 2}
    /\ LET values == extractStrings(args)
           first == CHOOSE j \in 1..Len(values) :
                       /\ \E i \in 1..2 : ContainsIgnoringCase(values[j], patterns[i])
                       /\ \A k \in 1..(j - 1) : \A i \in 1..2 :
                              ~ContainsIgnoringCase(values[k], patterns[i])
       IN /\ ContainsIgnoringCase(values[first], patterns[2])
          /\ ~ContainsIgnoringCase(values[first], patterns[1])
    /\ result.pattern = patterns[1]

(***************************************************************************)
(* Properties of the gate registry (Spec).                                 *)
(***************************************************************************)
\* the handlers inside connectUpstream for gate name g
Connecting(g) ==
    {h \in Handlers : req[h].pc \in {"connect", "listTools"} /\ req[h].gateName = g}

\* C1: the first requests to an unconnected gate lead to one upstream
\* connection attempt: no two connectUpstream calls for a name are in flight.
C1_SingleFlight ==
    \A g \in GateNames : Cardinality(Connecting(g)) <= 1

\* C2: once the registry holds a Gate for a name, the entry is never replaced
\* by another Gate and never removed.
C2_GateNeverReplaced ==
    [][\A g \in GateNames : gates[g] # NoGate => gates'[g] = gates[g]]_vars

\* C3: every session of a gate name forwards through the Gate the registry
\* holds for that name.
C3_SessionsShareGate ==
    \A sid \in DOMAIN sessions :
        sessions[sid].server.gate = gates[sessions[sid].gateName]

(***************************************************************************)
(* Properties of the mirror (Spec).                                        *)
(***************************************************************************)
\* the frames of the requests in flight and of the last answered one
Frames == {req[h] : h \in Handlers} \cup {last}

\* the frame of handler h after a step of h: its next frame, or the answered
\* request when the step made it return
After(h) == IF req'[h] # req[h] /\ req'[h] = Idle THEN last' ELSE req'[h]

\* the frame has run the callback of a registered tool of its session: its
\* transport did not reject before the callback
Invoked(f) ==
    /\ f.session # NoSession
    /\ f.body.kind = "call"
    /\ f.body.tool \in f.session.server.gate.tools
    /\ f.pc \in {"callTool", "done"}
    /\ f.caught = <<>>

\* the gate's blocking is active: enabled is not false, block is non-empty
Active(gateConfig) ==
    /\ gateConfig.enabled # "false"
    /\ gateConfig.block # Absent
    /\ gateConfig.block[1] # <<>>

\* the rule engine reports the frame's arguments blocked
EngineBlocks(f) ==
    LET gateConfig == f.session.server.gateConfig
    IN Active(gateConfig) /\ shouldBlock(f.body.arguments, gateConfig.block[1]).blocked

\* the one call the frame's invocation is to make upstream
Verbatim(f) ==
    [upstream |-> f.session.server.gate.upstream, name |-> f.body.tool,
     arguments |-> f.body.arguments]

\* C4: an invocation on a gate with active blocking that the rule engine
\* reports blocked never reaches upstream.callTool and ends with isError.
C4_BlockedNeverForwarded ==
    \A f \in Frames :
        (Invoked(f) /\ EngineBlocks(f))
        => /\ f.pc = "done"
           /\ f.calls = <<>>
           /\ f.result.isError
           /\ f.res.status = 200

\* a blocked invocation whose match is nested in the arguments
C4_Witness ==
    \E f \in Frames :
        /\ Invoked(f) /\ EngineBlocks(f)
        /\ f.result.kind = "blocked"
        /\ f.session.server.gateConfig.enabled = "undefined"
        /\ \A i \in 1..Len(f.body.arguments.kids) :
              f.body.arguments.kids[i].v.t # "string"

\* C7: a gate with enabled:false never blocks: every invocation is forwarded
\* with its arguments unchanged, patterns in them or not.
C7_DisabledGateForwards ==
    \A f \in Frames :
        (Invoked(f) /\ f.session.server.gateConfig.enabled = "false")
        => /\ f.calls = <<Verbatim(f)>>
           /\ f.result.kind # "blocked"

\* an invocation forwarded by a disabled gate although its arguments contain
\* a pattern of the gate
C7_Witness ==
    \E f \in Frames :
        LET gateConfig == f.session.server.gateConfig IN
        /\ Invoked(f)
        /\ gateConfig.enabled = "false"
        /\ gateConfig.block # Absent
        /\ shouldBlock(f.body.arguments, gateConfig.block[1]).blocked
        /\ f.pc = "done"
        /\ f.result.kind = "relayed"
        /\ Len(f.calls) = 1

\* C8: an invocation that is not blocked is forwarded to the upstream once,
\* with the tool name and the arguments the mirror received.
C8_ForwardedOnceVerbatim ==
    \A f \in Frames :
        (Invoked(f) /\ ~EngineBlocks(f)) => f.calls = <<Verbatim(f)>>

\* a finished invocation on a blocking gate that no pattern matched
C8_Witness ==
    \E f \in Frames :
        /\ Invoked(f) /\ ~EngineBlocks(f)
        /\ Active(f.session.server.gateConfig)
        /\ f.pc = "done"
        /\ f.calls = <<Verbatim(f)>>
        /\ StringLeaves(f.body.arguments) # {}

\* C9: when upstream.callTool throws, the invocation still ends with a
\* result that has isError and describes the failure, the response is not
\* an error of the proxy, and gates and sessions stay as they were.
C9_UpstreamFailureIsAResult ==
    [][\A h \in Handlers :
          (req[h].pc = "callTool" /\ After(h).thrown # <<>>)
          => /\ After(h).pc = "done"
             /\ After(h).res.status = 200
             /\ After(h).result.isError
             /\ After(h).result.content = <<"Upstream error: ">> \o After(h).thrown
             /\ gates' = gates
             /\ sessions' = sessions]_vars

\* an invocation whose upstream call threw
C9_Witness ==
    \E f \in Frames :
        /\ Invoked(f)
        /\ f.thrown # <<>>
        /\ f.pc = "done"
        /\ Len(f.calls) = 1

(***************************************************************************)
(* Properties of the new-session flow (Spec).                              *)
(***************************************************************************)
\* handler h takes a new-session request in this step
NewSessionRequest(h) ==
    /\ received' = received + 1
    /\ req'[h] # req[h]
    /\ req'[h].method = "POST"
    /\ req'[h].sessionId = NoSid
    /\ req'[h].gateName \in GateNames
    /\ gates[req'[h].gateName] = NoGate

\* C10: a failed connectUpstream is answered 502, stores nothing in gates and
\* creates no session; a new-session request that finds no Gate for its name
\* starts a connection attempt with a new Client.
C10_FailedConnectNotCached ==
    [][\A h \in Handlers :
          /\ (req[h].pc \in {"connect", "listTools"}
              /\ req'[h].pc \notin {"connect", "listTools", "haveGate"})
             => /\ After(h).pc = "done"
                /\ After(h).res.status = 502
                /\ gates' = gates
                /\ sessions' = sessions
                /\ nextSid' = nextSid
          /\ NewSessionRequest(h)
             => /\ req'[h].pc = "connect"
                /\ req'[h].client = nextClient
                /\ nextClient' = nextClient + 1]_vars

\* a new-session request that arrived after an attempt for its gate name had
\* failed is connecting again: every earlier attempt was for this name and
\* failed, nothing is cached, and there were more attempts than handlers
C10_Witness ==
    \E h \in Handlers :
        /\ req[h].pc = "connect"
        /\ failed = {req[h].gateName}
        /\ \A g \in GateNames : gates[g] = NoGate
        /\ req[h].client > NumHandlers
        /\ \A k \in Handlers \ {h} : req[k].pc = "idle"

(***************************************************************************)
(* Properties of the requests handleRequest answers before its first await *)
(* (Spec).                                                                 *)
(***************************************************************************)
\* a request arrives in this step
Arrives == received' = received + 1

\* the frame of the request that arrives in this step: the answered frame
\* when handleRequest returned at once, else the frame of its handler
Arrived ==
    IF req' = req THEN last'
    ELSE req'[CHOOSE h \in Handlers : req'[h] # req[h]]

\* the step leaves the registry, the session table and the upstream clients
\* as they were, and no handler goes on with the request
NothingChanges ==
    /\ gates' = gates
    /\ sessions' = sessions
    /\ nextClient' = nextClient
    /\ nextSid' = nextSid
    /\ failed' = failed
    /\ req' = req

\* C11: a request for a gate name that is not configured is answered 404
\* with the list of the configured gate names, whatever its method and
\* session id; no Gate and no Session is created and no upstream connection
\* is attempted.
C11_UnknownGateNotFound ==
    [][(Arrives /\ Arrived.gateName \notin GateNames \cup {""})
       => /\ Arrived.pc = "done"
          /\ Arrived.res.status = 404
          /\ Arrived.res.available = GateNames
          /\ NothingChanges]_vars

\* C12: a request to a configured gate whose session id is not in the
\* session table is answered 404 'Session not found'; the session table and
\* the gate registry stay as they were and no upstream connection is
\* attempted.
C12_UnknownSessionNotFound ==
    [][(/\ Arrives
        /\ Arrived.gateName \in GateNames
        /\ Arrived.sessionId # NoSid
        /\ Arrived.sessionId \notin DOMAIN sessions)
       => /\ Arrived.pc = "done"
          /\ Arrived.res.status = 404
          /\ Arrived.res.error = <<"Session not found">>
          /\ NothingChanges]_vars

\* a POST with a session id nobody was given was answered 'Session not
\* found' while the table holds a session of the same gate
C12_Witness ==
    /\ last.pc = "done"
    /\ last.method = "POST"
    /\ last.sessionId = BogusSid
    /\ last.res.error = <<"Session not found">>
    /\ \E sid \in DOMAIN sessions : sessions[sid].gateName = last.gateName

\* C13: a request to a configured gate without session id whose method is
\* not POST is answered 400 and changes nothing: no upstream connection is
\* attempted, no Gate is cached and no Session is created.
C13_NewSessionMustPost ==
    [][(/\ Arrives
        /\ Arrived.gateName \in GateNames
        /\ Arrived.sessionId = NoSid
        /\ Arrived.method # "POST")
       => /\ Arrived.pc = "done"
          /\ Arrived.res.status = 400
          /\ Arrived.res.error = <<"New sessions must start with POST">>
          /\ NothingChanges]_vars

\* a DELETE without session id was answered 400 for a gate that has no Gate
\* in the registry, and no Client was ever made
C13_Witness ==
    /\ last.pc = "done"
    /\ last.method = "DELETE"
    /\ last.gateName \in GateNames
    /\ last.sessionId = NoSid
    /\ last.res.status = 400
    /\ gates[last.gateName] = NoGate
    /\ nextClient = 1
    /\ sessions = <<>>

(***************************************************************************)
(* Properties of session termination (Spec).                               *)
(***************************************************************************)
\* the session ids whose sessions were removed from the table: ids are
\* handed out in order and only sessions.delete removes one
Terminated == (1..(nextSid - 1)) \ DOMAIN sessions

Caught(h) == req[h].pc # "idle" /\ req'[h] = Idle /\ last'.caught # <<>>

\* C16: an exception thrown while a request is handled (readBody rejecting
\* an unparsable body, a session transport rejecting) is caught by the
\* request listener; the request ends with a complete response that has a
\* status, the handler is free for later requests, and the registry and the
\* session table are as they were.
C16_ErrorsCaughtAtBoundary ==
    [][\A h \in Handlers :
          Caught(h)
          => /\ last'.pc = "done"
             /\ last'.res.status # 0
             /\ last'.res.ended
             /\ gates' = gates
             /\ sessions' = sessions]_vars

(***************************************************************************)
(* Properties of the shutdown (SpecSignals).                               *)
(***************************************************************************)
\* C15: when the process exits from the SIGTERM handler, the upstream
\* Client of every Gate in the registry and the server of every session in
\* the table have been closed, and the http server has stopped listening.
C15_AllClosedBeforeExit ==
    [][(proc.pc # "exited" /\ proc'.pc = "exited" /\ proc'.signal = "SIGTERM")
       => /\ \A g \in GateNames :
               gates[g] # NoGate => gates[g].upstream \in proc'.closedClients
          /\ \A sid \in DOMAIN sessions : sid \in proc'.closedServers
          /\ ~proc'.listening]_vars

(***************************************************************************)
(* Properties of the toggle command (SpecToggle, FairToggle).              *)
(***************************************************************************)
\* the background processes that are alive
Alive == {p \in Pids : procs[p] \in {"starting", "listening"}}

\* the toggle command ends in this step
Acts == ctl.pc = "act" /\ ctl'.pc = "idle"

C18_SingleInstance ==
    /\ Cardinality(Alive) <= 1
    /\ (ctl.pc = "idle" /\ toggles > 0 /\ pidFile # NoFile) => pidFile \in Alive

\* C19: when the lock record holds the pid of a dead process, the status
\* check reports "off" and removes the record, and no SIGTERM is sent.
C19_StaleLockRemoved ==
    [][(ctl.pc = "idle" /\ ctl'.pc # "idle"
        /\ pidFile \in Pids /\ procs[pidFile] = "dead")
       => /\ ctl'.status = "off"
          /\ ctl'.pc = "act"
          /\ pidFile' = NoFile
          /\ signalled' = signalled]_vars

\* the status check has found the record of process 1, which ended by
\* itself, and removed it; no process was ever sent a signal
C19_Witness ==
    /\ ctl.pc = "act"
    /\ ctl.found = "dead"
    /\ ctl.status = "off"
    /\ procs[1] = "dead"
    /\ pidFile = NoFile
    /\ signalled = {}

\* the fetch of the status check settles in this step
Fetched == ctl.pc = "fetch" /\ ctl'.pc # "fetch"

\* C21: when the lock record names a live process and the status endpoint
\* gives no ok answer, the status check removes the record and reports
\* "off" without sending a signal, and the toggle command then turns the
\* proxy on: it spawns a process and records its pid.
C21_UnresponsiveTreatedAsStale ==
    [][/\ (Fetched /\ ~statusOk)
           => /\ pidFile \in Pids
              /\ ctl'.status = "off"
              /\ ctl'.pc = "act"
              /\ ctl'.found = "unresponsive"
              /\ pidFile' = NoFile
              /\ signalled' = signalled
              /\ procs' = procs
       /\ (Acts /\ ctl.found = "unresponsive")
           => /\ pidFile = NoFile
              /\ procs[nextPid] = "none"
              /\ procs'[nextPid] = "starting"
              /\ pidFile' = nextPid
              /\ signalled' = signalled]_vars

\* the second toggle command found process 1 alive before it listened,
\* removed its record and spawned process 2; process 1 is still alive
C21_Witness ==
    /\ toggles = 2
    /\ ctl = [pc |-> "idle", pid |-> 0, status |-> "off", found |-> "unresponsive"]
    /\ procs[1] = "starting"
    /\ procs[2] = "starting"
    /\ pidFile = 2
    /\ signalled = {}

(***************************************************************************)
(* Properties of the session table (Spec).                                 *)
(***************************************************************************)
\* handler h is in the new-session flow after getGate gave it a Gate
HasGateForNew(h) == req[h].pc \in {"haveGate", "readBodyNew", "handleNew"}

\* the step ends the handshake of handler h: its transport handled an
\* initialize message and answered it
CompletesHandshake(h) ==
    /\ req[h].pc = "handleNew"
    /\ req[h].body.kind = "initialize"
    /\ req'[h] = Idle
    /\ last'.res = Response(200, <<"initialized">>, {})

\* C22: an entry is added to sessions only by the step that ends the
\* handshake of a new-session request, and it is the session of that
\* request; every other step of a new-session request that has its Gate
\* (a body that fails to parse, a message that is not initialize, a
\* transport that rejects) leaves sessions as it is.
C22_SessionAddedOnHandshake ==
    [][/\ \A sid \in DOMAIN sessions' \ DOMAIN sessions :
            \E h \in Handlers :
                /\ CompletesHandshake(h)
                /\ sessions'[sid] = Session(req[h].gateName, req[h].server)
       /\ \A h \in Handlers :
            (HasGateForNew(h) /\ req'[h] # req[h] /\ ~CompletesHandshake(h))
                => sessions' = sessions /\ nextSid' = nextSid]_vars

\* a new-session request on /db got its Gate and sent a message that is not
\* initialize: it was answered 400 and the session table is empty; no
\* session was ever created
C22_Witness ==
    /\ last.pc = "done"
    /\ last.gateName = "db"
    /\ last.sessionId = NoSid
    /\ last.body.kind \in {"call", "other"}
    /\ last.res.status = 400
    /\ gates["db"] # NoGate
    /\ sessions = <<>>
    /\ nextSid = 1

\* C23: every session in sessions has a gate name that is a key of
\* config.servers and for which gates holds a Gate.
C23_SessionGateConfiguredAndCached ==
    \A sid \in DOMAIN sessions :
        /\ sessions[sid].gateName \in DOMAIN config
        /\ gates[sessions[sid].gateName] # NoGate

\* sessions of both configured gates exist, and a request on a path that is
\* no key of config.servers has been answered without creating a session
C23_Witness ==
    /\ \E a, b \in DOMAIN sessions :
        sessions[a].gateName = "db" /\ sessions[b].gateName = "fs"
    /\ last.pc = "done"
    /\ last.gateName \notin DOMAIN config
    /\ last.sessionId = NoSid
    /\ last.method = "POST"

\* the step in which the transport of the session handler h looked up
\* handles the request of h without rejecting
Delivered(h) ==
    /\ req[h].pc \in {"deliver", "terminate"}
    /\ req'[h] # req[h]
    /\ After(h).caught = <<>>

\* C24: a request on the path of a configured gate that carries the id of
\* a session is handled by the transport of that session only when the
\* session is bound to the gate name of the path.
C24_SessionOnlyThroughOwnGate ==
    [][\A h \in Handlers :
          (Delivered(h) /\ req[h].gateName \in DOMAIN config)
              => req[h].session.gateName = req[h].gateName]_vars

\* the tools the Mirror of a session has registered: createGatedServer
\* registers one tool for each entry of gate.tools
Exposed(session) == session.server.gate.tools

\* C25: the Mirror of every session exposes the tools snapshot of the Gate
\* that gates holds for the session's gate name, so that all sessions of a
\* gate name expose the same set of tools.
C25_OneSnapshotPerGate ==
    /\ \A sid \in DOMAIN sessions :
        Exposed(sessions[sid]) = gates[sessions[sid].gateName].tools
    /\ \A a, b \in DOMAIN sessions :
        sessions[a].gateName = sessions[b].gateName
            => Exposed(sessions[a]) = Exposed(sessions[b])

====
